---------------------------- MODULE Spec2Model ----------------------------
(***************************************************************************)
(* Model of GUI-25/shock_tuning.py: the Dash callback update_graph, the    *)
(* parsing utility parse_contents and the payloads of run_tests.           *)
(*                                                                         *)
(* Text is a sequence of code points, a byte string a sequence of 0..255.  *)
(* Numbers are fixed point with denominator dtDen (one step = 0.001), the  *)
(* resolution of the sample interval dt = dtNum / dtDen; every token the   *)
(* model feeds to the parser has at most three fraction digits, so the     *)
(* arithmetic of the model is exact where the program's is binary floating *)
(* point.                                                                  *)
(***************************************************************************)
EXTENDS Integers, Sequences, FiniteSets, TLC

\* --------------------------------------------------------------- bounds
MaxRows == 2
MaxTime == 2
MaxClicks == 2

\* ------------------------------------------------------------ characters
Printable ==
  << " ", "!", "\"", "#", "$", "%", "&", "'", "(", ")", "*", "+", ",", "-", ".", "/",
     "0", "1", "2", "3", "4", "5", "6", "7", "8", "9", ":", ";", "<", "=", ">", "?",
     "@", "A", "B", "C", "D", "E", "F", "G", "H", "I", "J", "K", "L", "M", "N", "O",
     "P", "Q", "R", "S", "T", "U", "V", "W", "X", "Y", "Z", "[", "\\", "]", "^", "_",
     "grave", "a", "b", "c", "d", "e", "f", "g", "h", "i", "j", "k", "l", "m", "n", "o",
     "p", "q", "r", "s", "t", "u", "v", "w", "x", "y", "z", "{", "|", "}", "~" >>

\* ord() of a one-character string: ASCII 32..126, newline and tab (the grave
\* accent, code 96, is held by name: the lexer reads no such literal).
Ord(c) ==
  IF c = "\n" THEN 10
  ELSE IF c = "\t" THEN 9
  ELSE 31 + (CHOOSE i \in 1..Len(Printable) : Printable[i] = c)

\* A Python str literal, given character by character.
Chars(s) == << >> \o [i \in 1..Len(s) |-> Ord(s[i])]

\* ------------------------------------------------------------ evaluation
\* F applied to the value of v: v is computed once, as a local variable
\* assigned once is, however often F reads it.
With(v, F(_)) == CHOOSE r \in {F(x) : x \in {v}} : TRUE

\* a function on 1..n as the tuple of its values
AsSeq(f) == << >> \o f

Indices(s) == AsSeq([i \in 1..Len(s) |-> i])

\* s[i..j], clipped to the string as a Python slice is
Slice(s, i, j) ==
  LET lo == IF i < 1 THEN 1 ELSE i
      hi == IF j > Len(s) THEN Len(s) ELSE j
  IN  AsSeq([k \in 1..(IF hi < lo THEN 0 ELSE hi - lo + 1) |-> s[lo + k - 1]])

\* ------------------------------------------------------------ exceptions
Ok(v) == [ok |-> TRUE, val |-> v]
Raise(type, what, args) ==
  [ok |-> FALSE, exc |-> type, msg |-> [what |-> what, args |-> args]]

\* ---------------------------------------------------------------- base64
\* value of a base64 alphabet character ('A'..'Z' are 65..90, 'a'..'z' 97..122,
\* '0'..'9' 48..57, '+' 43, '/' 47), 64 for any other character
B64Index(ch) ==
  IF ch >= 65 /\ ch <= 90 THEN ch - 65
  ELSE IF ch >= 97 /\ ch <= 122 THEN ch - 97 + 26
  ELSE IF ch >= 48 /\ ch <= 57 THEN ch - 48 + 52
  ELSE IF ch = 43 THEN 62
  ELSE IF ch = 47 THEN 63
  ELSE 64

B64Char(v) ==
  IF v < 26 THEN 65 + v
  ELSE IF v < 52 THEN 97 + (v - 26)
  ELSE IF v < 62 THEN 48 + (v - 52)
  ELSE IF v = 62 THEN 43
  ELSE 47

\* the pad character '='
B64Pad == Ord("=")

\* other characters the program and its inputs name
Comma == Ord(",")
Minus == Ord("-")
Plus == Ord("+")
Dot == Ord(".")
Space == Ord(" ")
Tab == Ord("\t")
Newline == Ord("\n")
Return == Newline + 3
Bang == Ord("!")

\* base64.b64encode(bytes).decode(): three bytes to four characters, '=' padded
b64encode(bytes) ==
  With(bytes, LAMBDA b :
    LET n == Len(b)
        byte(i) == IF i <= n THEN b[i] ELSE 0
    IN  AsSeq([j \in 1..(4 * ((n + 2) \div 3)) |->
          LET g == (j - 1) \div 4
              p == (j - 1) % 4
              b1 == byte(3 * g + 1)
              b2 == byte(3 * g + 2)
              b3 == byte(3 * g + 3)
          IN  IF p = 0 THEN B64Char(b1 \div 4)
              ELSE IF p = 1 THEN B64Char((b1 % 4) * 16 + (b2 \div 16))
              ELSE IF p = 2 THEN
                (IF 3 * g + 2 <= n THEN B64Char((b2 % 16) * 4 + (b3 \div 64)) ELSE B64Pad)
              ELSE (IF 3 * g + 3 <= n THEN B64Char(b3 % 64) ELSE B64Pad)]))

\* The bytes of the data characters d (their values): every four give three
\* bytes, a last group of two or three gives one or two.
B64Bytes(d) ==
  LET left == Len(d) % 4
      nbytes == 3 * (Len(d) \div 4) + (IF left >= 2 THEN left - 1 ELSE 0)
  IN  AsSeq([k \in 1..nbytes |->
        LET g == 4 * ((k - 1) \div 3)
            p == (k - 1) % 3
        IN  IF p = 0 THEN d[g + 1] * 4 + (d[g + 2] \div 16)
            ELSE IF p = 1 THEN (d[g + 2] % 16) * 16 + (d[g + 3] \div 4)
            ELSE (d[g + 3] % 4) * 64 + d[g + 4]])

\* binascii.a2b_base64 in its default, non-strict mode. The scan keeps
\* quad_pos (data characters seen, modulo 4) and pads ('=' seen since the last
\* data character); characters outside the alphabet are skipped; an '=' that
\* completes the padding of a quad with quad_pos >= 2 ends the parse (stop) and
\* whatever follows is ignored; reaching the end inside a quad is an error.
a2b_base64(str) ==
  With(str, LAMBDA s :
    LET IsData(i) == B64Index(s[i]) < 64
        quad_pos(i) == Cardinality({j \in 1..(i - 1) : IsData(j)}) % 4
        pads(i) == Cardinality({j \in 1..(i - 1) :
                      s[j] = B64Pad /\ \A k \in j..(i - 1) : ~IsData(k)})
        stops == {i \in 1..Len(s) :
                    s[i] = B64Pad /\ quad_pos(i) >= 2 /\ quad_pos(i) + pads(i) + 1 >= 4}
    IN  With(IF stops = {} THEN Len(s) + 1 ELSE CHOOSE i \in stops : \A j \in stops : i <= j,
          LAMBDA stop :
            With(SelectSeq(Slice(s, 1, stop - 1), LAMBDA ch : B64Index(ch) < 64),
              LAMBDA data :
                With(AsSeq([k \in 1..Len(data) |-> B64Index(data[k])]),
                  LAMBDA d :
                    IF stop > Len(s) /\ Len(d) % 4 = 1
                      THEN Raise("binascii.Error", "number of data characters", << Len(d) >>)
                    ELSE IF stop > Len(s) /\ Len(d) % 4 # 0
                      THEN Raise("binascii.Error", "Incorrect padding", << >>)
                    ELSE Ok(B64Bytes(d))))))

\* base64.b64decode(str): the str must be ASCII, then a2b_base64
b64decode(s) ==
  IF \E i \in 1..Len(s) : s[i] > 127
    THEN Raise("ValueError", "string argument should contain only ASCII characters", << >>)
  ELSE a2b_base64(s)

\* ----------------------------------------------------------------- UTF-8
\* the concatenation of seqs[lo..hi]
RECURSIVE Flatten(_, _, _)
Flatten(seqs, lo, hi) ==
  With(<< lo, hi, (lo + hi) \div 2 >>, LAMBDA p :
    IF p[1] > p[2] THEN << >>
    ELSE IF p[1] = p[2] THEN seqs[p[1]]
    ELSE Flatten(seqs, p[1], p[3]) \o Flatten(seqs, p[3] + 1, p[2]))

\* str.encode(): code points to UTF-8 bytes
utf8_encode(text) ==
  With(text, LAMBDA t :
    With(AsSeq([i \in 1..Len(t) |->
           LET c == t[i] IN
           IF c < 128 THEN << c >>
           ELSE IF c < 2048 THEN << 192 + (c \div 64), 128 + (c % 64) >>
           ELSE IF c < 65536
             THEN << 224 + (c \div 4096), 128 + ((c \div 64) % 64), 128 + (c % 64) >>
           ELSE << 240 + (c \div 262144), 128 + ((c \div 4096) % 64),
                   128 + ((c \div 64) % 64), 128 + (c % 64) >>]),
      LAMBDA seqs : Flatten(seqs, 1, Len(seqs))))

\* bytes.decode('utf-8'), strict. Every character is a lead byte and the
\* continuation bytes (0x80..0xBF) after it; the bytes are text when each lead
\* byte is followed by exactly the continuation bytes its value calls for
\* (no overlong form, no surrogate, nothing above U+10FFFF), else the decode
\* raises UnicodeDecodeError.
utf8_decode(bytes) ==
  With(bytes, LAMBDA b :
    With(SelectSeq(Indices(b), LAMBDA i : ~(b[i] >= 128 /\ b[i] <= 191)), LAMBDA leads :
      LET m(k) == (IF k < Len(leads) THEN leads[k + 1] ELSE Len(b) + 1) - leads[k] - 1
          wellformed(k) ==
            LET i == leads[k]
                c == b[i]
            IN  \/ c < 128 /\ m(k) = 0
                \/ c >= 194 /\ c <= 223 /\ m(k) = 1
                \/ /\ c >= 224 /\ c <= 239 /\ m(k) = 2
                   /\ (c = 224 => b[i + 1] >= 160)
                   /\ (c = 237 => b[i + 1] <= 159)
                \/ /\ c >= 240 /\ c <= 244 /\ m(k) = 3
                   /\ (c = 240 => b[i + 1] >= 144)
                   /\ (c = 244 => b[i + 1] <= 143)
          point(k) ==
            LET i == leads[k]
                c == b[i]
            IN  IF c < 128 THEN c
                ELSE IF c <= 223 THEN (c - 192) * 64 + (b[i + 1] - 128)
                ELSE IF c <= 239
                  THEN (c - 224) * 4096 + (b[i + 1] - 128) * 64 + (b[i + 2] - 128)
                ELSE (c - 240) * 262144 + (b[i + 1] - 128) * 4096
                     + (b[i + 2] - 128) * 64 + (b[i + 3] - 128)
      IN  IF (Len(b) > 0 /\ b[1] >= 128 /\ b[1] <= 191)
             \/ \E k \in 1..Len(leads) : ~wellformed(k)
            THEN Raise("UnicodeDecodeError", "invalid utf-8", << >>)
          ELSE Ok(AsSeq([k \in 1..Len(leads) |-> point(k)]))))

\* --------------------------------------------------------------- numbers
\* dt = 0.001 (parse_contents), held as the fraction dtNum / dtDen
dtNum == 1
dtDen == 1000

\* the column count the error message of parse_contents names
ExpectedPos == 4

RECURSIVE Pow10(_)
Pow10(k) == IF k = 0 THEN 1 ELSE 10 * Pow10(k - 1)

\* fraction digits of the fixed point: 10^FracDigits = dtDen
FracDigits == CHOOSE k \in 0..9 : Pow10(k) = dtDen

\* cells of a DataFrame: a float or int (fixed point), the missing value NaN,
\* or a Python str (object dtype)
Num(v) == [t |-> "num", v |-> v, s |-> << >>]
NaN == [t |-> "nan", v |-> 0, s |-> << >>]
Str(s) == [t |-> "str", v |-> 0, s |-> s]

\* '0'..'9'
IsDigit(c) == c >= 48 /\ c <= 57

RECURSIVE DigitsValue(_, _, _)
DigitsValue(tok, i, j) ==
  IF j < i THEN 0 ELSE 10 * DigitsValue(tok, i, j - 1) + (tok[j] - 48)

\* The decimal tokens read_csv converts to a number: an optional sign, digits,
\* and an optional point with at most FracDigits digits after it. (Exponents,
\* inf, the NA markers and longer fractions are numbers to pandas as well; no
\* input of the model holds one.)
ParseNumber(token) ==
  With(token, LAMBDA tok :
    LET signed == Len(tok) >= 1 /\ tok[1] \in {Minus, Plus}
        first == IF signed THEN 2 ELSE 1
        dots == {i \in first..Len(tok) : tok[i] = Dot}
        dot == IF dots = {} THEN Len(tok) + 1 ELSE CHOOSE i \in dots : TRUE
        nfrac == IF dots = {} THEN 0 ELSE Len(tok) - dot
        wellformed ==
          /\ Cardinality(dots) <= 1
          /\ \A i \in first..Len(tok) : i \in dots \/ IsDigit(tok[i])
          /\ (dot - first) + nfrac >= 1
          /\ nfrac <= FracDigits
        mag == DigitsValue(tok, first, dot - 1) * dtDen
               + DigitsValue(tok, dot + 1, Len(tok)) * Pow10(FracDigits - nfrac)
    IN  IF ~wellformed THEN Raise("ValueError", "could not convert string to float", << >>)
        ELSE Ok(IF signed /\ tok[1] = Minus THEN 0 - mag ELSE mag))

\* -------------------------------------------------------------- read_csv
\* ' ' and '\t'
IsSpace(c) == c = Space \/ c = Tab
\* '\n' and '\r'
IsEOL(c) == c = Newline \/ c = Return

\* The tokenizer with delim_whitespace=True: lines end at \n or \r, fields are
\* separated by runs of spaces and tabs, leading and trailing whitespace and
\* blank lines are dropped. The result is the rows of fields.
tokenize(text) ==
  With(text, LAMBDA t :
    LET IsWs(i) == IsSpace(t[i]) \/ IsEOL(t[i])
        line(i) == Cardinality({j \in 1..i : IsEOL(t[j])})
    IN  With(<< SelectSeq(Indices(t), LAMBDA i : ~IsWs(i) /\ (i = 1 \/ IsWs(i - 1))),
                SelectSeq(Indices(t), LAMBDA i : ~IsWs(i) /\ (i = Len(t) \/ IsWs(i + 1))) >>,
          LAMBDA se :
            LET starts == se[1]
                ends == se[2]
            IN  With(SelectSeq(Indices(starts),
                       LAMBDA k : k = 1 \/ line(starts[k]) # line(starts[k - 1])),
                  LAMBDA firsts :
                    LET last(r) == IF r < Len(firsts) THEN firsts[r + 1] - 1 ELSE Len(starts)
                    IN  AsSeq([r \in 1..Len(firsts) |->
                          AsSeq([c \in 1..(last(r) - firsts[r] + 1) |->
                            Slice(t, starts[firsts[r] + c - 1], ends[firsts[r] + c - 1])])]))))

\* One column of the parsed file: numeric when every field present converts,
\* else object (the fields kept as str); a field missing from a short row is NaN.
Column(rows, c) ==
  With(\A r \in 1..Len(rows) : c <= Len(rows[r]) => ParseNumber(rows[r][c]).ok,
    LAMBDA numeric :
      AsSeq([r \in 1..Len(rows) |->
        IF c > Len(rows[r]) THEN NaN
        ELSE IF numeric THEN Num(ParseNumber(rows[r][c]).val)
        ELSE Str(rows[r][c])]))

RECURSIVE Decimal(_)
\* str(n) of a natural number
Decimal(n) ==
  With(n, LAMBDA k :
    IF k < 10 THEN << 48 + k >> ELSE Append(Decimal(k \div 10), 48 + (k % 10)))

\* pd.read_csv(io.StringIO(raw), delim_whitespace=True, header=None): the first
\* row sets the width; a longer row is a ParserError, a shorter one is padded;
\* no row at all is an EmptyDataError. Columns are labelled 0..width-1 (held
\* here as their decimal strings), the index is 0..N-1.
read_csv(raw) ==
  With(tokenize(raw), LAMBDA rows :
    IF rows = << >> THEN Raise("EmptyDataError", "No columns to parse from file", << >>)
    ELSE LET width == Len(rows[1])
             long == {r \in 1..Len(rows) : Len(rows[r]) > width}
         IN  IF long # {}
               THEN LET bad == CHOOSE r \in long : \A q \in long : r <= q IN
                    Raise("ParserError", "Expected fields in line, saw",
                          << width, bad, Len(rows[bad]) >>)
             ELSE Ok([columns |-> AsSeq([c \in 1..width |-> Decimal(c - 1)]),
                      index |-> AsSeq([r \in 1..Len(rows) |-> r - 1]),
                      data |-> AsSeq([c \in 1..width |-> Column(rows, c)])]))

\* ------------------------------------------------------- parse_contents
\* contents.split(',', 1)
split1(str) ==
  With(str, LAMBDA s :
    LET commas == {i \in 1..Len(s) : s[i] = Comma} IN
    IF commas = {} THEN << s >>
    ELSE LET k == CHOOSE i \in commas : \A j \in commas : i <= j
         IN  << Slice(s, 1, k - 1), Slice(s, k + 1, Len(s)) >>)

\* the body of the try block: unpack the split, decode, read
decode_upload(contents) ==
  With(split1(contents), LAMBDA parts :
    IF Len(parts) # 2
      THEN Raise("ValueError", "not enough values to unpack", << 2, Len(parts) >>)
    ELSE With(b64decode(parts[2]), LAMBDA bin :
      IF ~bin.ok THEN bin
      ELSE With(utf8_decode(bin.val), LAMBDA raw :
        IF ~raw.ok THEN raw ELSE read_csv(raw.val))))

\* except Exception as e: raise ValueError(f"Failed to parse upload: {e}")
ExceptException(result) ==
  With(result, LAMBDA r :
    IF r.ok THEN r ELSE Raise("ValueError", "Failed to parse upload", << >>))

TimeLabel == Chars(<< "T", "i", "m", "e" >>)
ShkPrefix == Chars(<< "S", "h", "k" >>)
PosSuffix == Chars(<< " ", "p", "o", "s" >>)
VelSuffix == Chars(<< " ", "v", "e", "l" >>)
\* f'Shk{i} pos' and f'Shk{i} vel'
PosLabel(i) == ShkPrefix \o Decimal(i) \o PosSuffix
VelLabel(i) == ShkPrefix \o Decimal(i) \o VelSuffix

\* df.shape
shape0(df) == Len(df.index)
shape1(df) == Len(df.columns)

\* df[label]
GetCol(df, label) ==
  df.data[CHOOSE c \in 1..Len(df.columns) : df.columns[c] = label]

\* insert_time with the rows counted from one: Time = (index + 1) * dt
insert_time_from1(df) ==
  [columns |-> << TimeLabel >> \o df.columns,
   index |-> df.index,
   data |-> << AsSeq([r \in 1..shape0(df) |-> Num((df.index[r] + 1) * dtNum)]) >> \o df.data]

\* df.insert(0, 'Time', df.index * dt)
insert_time(df) ==
  [columns |-> << TimeLabel >> \o df.columns,
   index |-> df.index,
   data |-> << AsSeq([r \in 1..shape0(df) |-> Num(df.index[r] * dtNum)]) >> \o df.data]

\* pos_cols with the channels counted from zero: range(df.shape[1] - 1)
pos_cols_from0(df) == AsSeq([i \in 1..(shape1(df) - 1) |-> PosLabel(i - 1)])

\* [f'Shk{i} pos' for i in range(1, df.shape[1])]
pos_cols(df) == AsSeq([i \in 1..(shape1(df) - 1) |-> PosLabel(i)])

\* a - b on two cells: str operands are a TypeError, NaN propagates
Sub(a, b) ==
  IF a.t = "str" \/ b.t = "str"
    THEN Raise("TypeError", "unsupported operand type(s) for -", << >>)
  ELSE IF a.t = "nan" \/ b.t = "nan" THEN Ok(NaN)
  ELSE Ok(Num(a.v - b.v))

\* Series.diff(): NaN first, then each element minus the one before it
diff(column) ==
  With(column, LAMBDA col :
    With(AsSeq([n \in 1..Len(col) |-> IF n = 1 THEN Ok(NaN) ELSE Sub(col[n], col[n - 1])]),
      LAMBDA d :
        IF \E n \in 1..Len(d) : ~d[n].ok
          THEN Raise("TypeError", "unsupported operand type(s) for -", << >>)
        ELSE Ok(AsSeq([n \in 1..Len(d) |-> d[n].val]))))

\* DivDt with the product in place of the quotient: x * dt
MulDt(x) == IF x.t = "num" THEN Num((x.v * dtNum) \div dtDen) ELSE NaN

\* x / dt on one cell
DivDt(x) == IF x.t = "num" THEN Num((x.v * dtDen) \div dtNum) ELSE NaN

\* for i, col in enumerate(pos_cols, start=1): df[f'Shk{i} vel'] = df[col].diff() / dt
RECURSIVE compute_velocities(_, _, _)
compute_velocities(frame, pcols, i) ==
  With(frame, LAMBDA df :
    IF i > Len(pcols) THEN Ok(df)
    ELSE With(diff(GetCol(df, pcols[i])), LAMBDA d :
      IF ~d.ok THEN d
      ELSE compute_velocities(
             [columns |-> Append(df.columns, VelLabel(i)),
              index |-> df.index,
              data |-> Append(df.data, AsSeq([n \in 1..Len(d.val) |-> DivDt(d.val[n])]))],
             pcols, i + 1)))

parse_contents(contents) ==
  With(ExceptException(decode_upload(contents)), LAMBDA rd :
    IF ~rd.ok THEN rd
    ELSE With(insert_time(rd.val), LAMBDA df :
      With(pos_cols(df), LAMBDA pcols :
        IF Len(pcols) # shape1(df) - 1
          THEN Raise("ValueError", "Expected position columns, found",
                     << ExpectedPos, shape1(df) - 1 >>)
        ELSE compute_velocities(
               [columns |-> << TimeLabel >> \o pcols, index |-> df.index, data |-> df.data],
               pcols, 1))))

\* --------------------------------------------------------- update_graph
\* the upload component holds no file: contents is None (falsy, as '' is)
NoContents == << >>

NoFrame == [columns |-> << >>, index |-> << >>, data |-> << >>]
NotParsed == Raise("not parsed", "", << >>)

\* 'pos' in col
Contains(col, word) ==
  \E k \in 0..(Len(col) - Len(word)) : \A j \in 1..Len(word) : col[k + j] = word[j]

\* window with the end bound excluded: df['Time'] < end_time
window_open(df, start_time, end_time) ==
  With(GetCol(df, TimeLabel), LAMBDA time :
    With(SelectSeq(Indices(time),
                   LAMBDA r : time[r].v >= start_time /\ time[r].v < end_time),
      LAMBDA keep :
        [columns |-> df.columns,
         index |-> AsSeq([k \in 1..Len(keep) |-> df.index[keep[k]]]),
         data |-> AsSeq([c \in 1..Len(df.data) |->
                    AsSeq([k \in 1..Len(keep) |-> df.data[c][keep[k]]])])]))

\* df[(df['Time'] >= start_time) & (df['Time'] <= end_time)]
window(df, start_time, end_time) ==
  With(GetCol(df, TimeLabel), LAMBDA time :
    With(SelectSeq(Indices(time),
                   LAMBDA r : time[r].v >= start_time /\ time[r].v <= end_time),
      LAMBDA keep :
        [columns |-> df.columns,
         index |-> AsSeq([k \in 1..Len(keep) |-> df.index[keep[k]]]),
         data |-> AsSeq([c \in 1..Len(df.data) |->
                    AsSeq([k \in 1..Len(keep) |-> df.data[c][keep[k]]])])]))

\* df_filtered.melt(id_vars='Time', value_vars=..., var_name='Shock',
\* value_name='Velocity'): one row per value column and frame row
RECURSIVE melt(_, _, _)
melt(df, value_vars, i) ==
  IF i > Len(value_vars) THEN << >>
  ELSE AsSeq([r \in 1..shape0(df) |->
          [Time |-> GetCol(df, TimeLabel)[r], Shock |-> value_vars[i],
           Velocity |-> GetCol(df, value_vars[i])[r]]])
       \o melt(df, value_vars, i + 1)

PosWord == Chars(<< "p", "o", "s" >>)
VelWord == Chars(<< "v", "e", "l" >>)

\* the two figures: the line plot of the 'pos' columns and the histogram of
\* the melted 'vel' columns
figures(df_filtered) ==
  With(<< SelectSeq(df_filtered.columns, LAMBDA col : Contains(col, PosWord)),
          SelectSeq(df_filtered.columns, LAMBDA col : Contains(col, VelWord)) >>,
    LAMBDA cols :
      [kind |-> "figures",
       pos_fig |-> [x |-> TimeLabel, y |-> cols[1]],
       vel_fig |-> [x |-> "Velocity", color |-> "Shock",
                    rows |-> melt(df_filtered, cols[2], 1)]])

\* The callback: what it returns (or raises) and the frames it computed on the way.
update_graph(n_clicks, contents, start_time, end_time) ==
  IF n_clicks = 0 \/ contents = NoContents
    THEN [df |-> NotParsed, df_filtered |-> NoFrame, ret |-> [kind |-> "no_update"]]
  ELSE With(parse_contents(contents), LAMBDA df :
    IF ~df.ok /\ df.exc = "ValueError"
      THEN [df |-> df, df_filtered |-> NoFrame, ret |-> [kind |-> "empty"]]
    ELSE IF ~df.ok
      THEN [df |-> df, df_filtered |-> NoFrame, ret |-> [kind |-> "raised", exc |-> df.exc]]
    ELSE With(window(df.val, start_time, end_time), LAMBDA df_filtered :
           [df |-> df, df_filtered |-> df_filtered, ret |-> figures(df_filtered)]))

\* ------------------------------------------------------------- run_tests
DataUrlPrefix ==
  Chars(<< "d", "a", "t", "a", ":", "t", "e", "x", "t", "/", "p", "l", "a", "i", "n",
           ";", "b", "a", "s", "e", "6", "4", "," >>)

\* sample = "1 2 3 4 5\n6 7 8 9 10"
sample ==
  Chars(<< "1", " ", "2", " ", "3", " ", "4", " ", "5", "\n",
           "6", " ", "7", " ", "8", " ", "9", " ", "1", "0" >>)
content == DataUrlPrefix \o b64encode(utf8_encode(sample))

expected_cols ==
  << Chars(<< "T", "i", "m", "e" >>),
     Chars(<< "S", "h", "k", "1", " ", "p", "o", "s" >>),
     Chars(<< "S", "h", "k", "2", " ", "p", "o", "s" >>),
     Chars(<< "S", "h", "k", "3", " ", "p", "o", "s" >>),
     Chars(<< "S", "h", "k", "4", " ", "p", "o", "s" >>),
     Chars(<< "S", "h", "k", "1", " ", "v", "e", "l" >>),
     Chars(<< "S", "h", "k", "2", " ", "v", "e", "l" >>),
     Chars(<< "S", "h", "k", "3", " ", "v", "e", "l" >>),
     Chars(<< "S", "h", "k", "4", " ", "v", "e", "l" >>) >>

\* sample2 = "0 0 0 0 0\n0.001 1 2 3 4"
sample2 ==
  Chars(<< "0", " ", "0", " ", "0", " ", "0", " ", "0", "\n",
           "0", ".", "0", "0", "1", " ", "1", " ", "2", " ", "3", " ", "4" >>)
content2 == DataUrlPrefix \o b64encode(utf8_encode(sample2))

\* parse_contents("not,base64")
content3 == Chars(<< "n", "o", "t", ",", "b", "a", "s", "e", "6", "4" >>)

\* ------------------------------------------------- the files users upload
\* A log file is named by its kind, its width (tokens per row) and its row
\* count. Kinds "count" (the rows of run_tests' sample), "ramp" (the rows of
\* sample2) and "bounce" hold numbers only; "word1", "word2" and "latin1" hold
\* one word that is no number; "short" and "long" have a ragged second row.
Kinds == {"count", "ramp", "bounce", "word1", "word2", "latin1", "short", "long"}
Widths == {3, 4, 5}
Hows == {"dataurl", "nocomma", "stray", "cut"}

\* the value (fixed point) of the token at row r, column c
CellValue(kind, r, c) ==
  IF kind = "ramp" THEN
    (IF c = 1 THEN (r - 1) * dtNum ELSE (c - 1) * (r - 1) * (r - 1) * dtDen)
  ELSE IF kind = "bounce" THEN c * 1500 - r * r * 700
  ELSE (5 * (r - 1) + c) * dtDen

IsWordCell(kind, r, c) ==
  \/ kind \in {"word1", "latin1"} /\ r = 1 /\ c = 2
  \/ kind = "word2" /\ r = 2 /\ c = 2

RowWidth(kind, width, r) ==
  IF kind = "short" /\ r = 2 THEN width - 1
  ELSE IF kind = "long" /\ r = 2 THEN width + 1
  ELSE width

RECURSIVE StripZeros(_)
StripZeros(digits) ==
  With(digits, LAMBDA d :
    IF d # << >> /\ d[Len(d)] = 48 THEN StripZeros(Slice(d, 1, Len(d) - 1)) ELSE d)

\* a number as the logger writes it: "-1.3", "0.001", "10"
FormatNumber(v) ==
  LET a == IF v < 0 THEN 0 - v ELSE v
      frac == StripZeros(Tail(Decimal(dtDen + (a % dtDen))))
  IN  (IF v < 0 THEN << Minus >> ELSE << >>)
      \o Decimal(a \div dtDen)
      \o (IF frac = << >> THEN << >> ELSE << Dot >> \o frac)

Token(kind, r, c) ==
  IF IsWordCell(kind, r, c)
    THEN (IF kind = "word1" THEN << Ord("x") >> ELSE << 181 >>)
  ELSE FormatNumber(CellValue(kind, r, c))

RECURSIVE RowText(_, _, _, _)
RowText(kind, width, r, c) ==
  IF c > RowWidth(kind, width, r) THEN << >>
  ELSE (IF c = 1 THEN << >> ELSE IF kind = "bounce" THEN << Tab >> ELSE << Space >>)
       \o Token(kind, r, c) \o RowText(kind, width, r, c + 1)

\* rows joined by "\n"; the "bounce" log is tab separated with "\r\n" after
\* every row
RECURSIVE FileText(_, _, _, _)
FileText(kind, width, rows, r) ==
  IF r > rows THEN << >>
  ELSE RowText(kind, width, r, 1)
       \o (IF kind = "bounce" THEN << Return, Newline >>
           ELSE IF r < rows THEN << Newline >> ELSE << >>)
       \o FileText(kind, width, rows, r + 1)

\* the bytes of the file: UTF-8, or one byte per character for "latin1"
FileBytes(kind, width, rows) ==
  IF kind = "latin1" THEN FileText(kind, width, rows, 1)
  ELSE utf8_encode(FileText(kind, width, rows, 1))

\* The contents string handed to the callback. "dataurl" is what dcc.Upload
\* and run_tests build; "nocomma" lacks the separating comma; "stray" has a
\* character outside the base64 alphabet after the second character; "cut" has
\* lost its last character.
Payload(kind, width, rows, how) ==
  With(b64encode(FileBytes(kind, width, rows)), LAMBDA b64 :
  IF how = "dataurl" THEN DataUrlPrefix \o b64
  ELSE IF how = "nocomma" THEN Slice(DataUrlPrefix, 1, Len(DataUrlPrefix) - 1) \o b64
  ELSE IF how = "stray" THEN
    DataUrlPrefix \o Slice(b64, 1, 2) \o << Bang >> \o Slice(b64, 3, Len(b64))
  ELSE DataUrlPrefix \o Slice(b64, 1, Len(b64) - 1))

\* ------------------------------------------------------------------ state
VARIABLES
  n_clicks,     \* process-btn.n_clicks
  contents,     \* upload-data.contents
  start_time,   \* start-time.value, fixed point
  end_time,     \* end-time.value, fixed point
  pc,           \* "loading", "idle" or "returned" (update_graph has just run)
  df,           \* update_graph's df: what parse_contents returned or raised
  df_filtered,  \* update_graph's df_filtered
  ret,          \* what update_graph returned or raised
  upload        \* which file the user chose and how it was framed

vars == << n_clicks, contents, start_time, end_time, pc, df, df_filtered, ret, upload >>

\* dcc.Input(id='start-time', value=0) and dcc.Input(id='end-time', value=10)
DefaultStart == 0
DefaultEndSeconds == 10

NoUpload == [kind |-> "none", width |-> 0, rows |-> 0, how |-> "none"]
NoReturn == [kind |-> "none"]

Init ==
  /\ n_clicks = 0
  /\ contents = NoContents
  /\ start_time = DefaultStart * dtDen
  /\ end_time = DefaultEndSeconds * dtDen
  /\ pc = "loading"
  /\ df = NotParsed
  /\ df_filtered = NoFrame
  /\ ret = NoReturn
  /\ upload = NoUpload

\* run update_graph on the component state and hold its frame
Call(n) ==
  \E f \in {update_graph(n, contents, start_time, end_time)} :
    /\ df' = f.df
    /\ df_filtered' = f.df_filtered
    /\ ret' = f.ret
    /\ pc' = "returned"

\* Dash calls every callback once when the page loads, with n_clicks = 0.
InitialCall ==
  /\ pc = "loading"
  /\ Call(n_clicks)
  /\ UNCHANGED << n_clicks, contents, start_time, end_time, upload >>

\* The user drops a file on the upload component.
Upload(kind, width, rows, how) ==
  /\ pc = "idle"
  /\ contents = NoContents
  /\ contents' = Payload(kind, width, rows, how)
  /\ upload' = [kind |-> kind, width |-> width, rows |-> rows, how |-> how]
  /\ UNCHANGED << n_clicks, start_time, end_time, pc, df, df_filtered, ret >>

\* A client sets the contents to the string of run_tests' third test.
Post ==
  /\ pc = "idle"
  /\ contents = NoContents
  /\ contents' = content3
  /\ upload' = [kind |-> "posted", width |-> 0, rows |-> 0, how |-> "raw"]
  /\ UNCHANGED << n_clicks, start_time, end_time, pc, df, df_filtered, ret >>

SetStartTime(t) ==
  /\ pc = "idle"
  /\ start_time # t
  /\ start_time' = t
  /\ UNCHANGED << n_clicks, contents, end_time, pc, df, df_filtered, ret, upload >>

SetEndTime(t) ==
  /\ pc = "idle"
  /\ end_time # t
  /\ end_time' = t
  /\ UNCHANGED << n_clicks, contents, start_time, pc, df, df_filtered, ret, upload >>

\* The Process button: n_clicks goes up by one and the callback runs.
Click ==
  /\ pc = "idle"
  /\ n_clicks < MaxClicks
  /\ n_clicks' = n_clicks + 1
  /\ Call(n_clicks + 1)
  /\ UNCHANGED << contents, start_time, end_time, upload >>

\* The callback's frame is gone once its result (or the error) is sent.
Respond ==
  /\ pc = "returned"
  /\ pc' = "idle"
  /\ df' = NotParsed
  /\ df_filtered' = NoFrame
  /\ ret' = NoReturn
  /\ UNCHANGED << n_clicks, contents, start_time, end_time, upload >>

\* Reloading the page builds the layout again.
Reload ==
  /\ pc = "idle"
  /\ contents # NoContents \/ n_clicks > 0
  /\ n_clicks' = 0
  /\ contents' = NoContents
  /\ start_time' = DefaultStart * dtDen
  /\ end_time' = DefaultEndSeconds * dtDen
  /\ pc' = "loading"
  /\ upload' = NoUpload
  /\ UNCHANGED << df, df_filtered, ret >>

Next ==
  \/ InitialCall
  \/ \E kind \in Kinds, width \in Widths, rows \in 0..MaxRows, how \in Hows :
       Upload(kind, width, rows, how)
  \/ Post
  \/ \E t \in 0..MaxTime : SetStartTime(t)
  \/ \E t \in 0..MaxTime : SetEndTime(t)
  \/ Click
  \/ Respond
  \/ Reload

Spec == Init /\ [][Next]_vars

\* ----------------------------------------------------------------- claims
\* update_graph has just run parse_contents on the uploaded contents
Parsed == pc = "returned" /\ n_clicks > 0 /\ contents # NoContents

\* the uploaded file has at least one row, every row has `width` tokens and
\* every token is a number, and the upload component framed it
NumericUpload(width) ==
  /\ upload.kind \in Kinds
  /\ upload.how = "dataurl"
  /\ upload.rows >= 1
  /\ upload.width = width
  /\ \A r \in 1..upload.rows :
       /\ RowWidth(upload.kind, upload.width, r) = upload.width
       /\ \A c \in 1..upload.width : ~IsWordCell(upload.kind, r, c)

\* the uploaded file is UTF-8 text with a token that is no number
WordUpload ==
  /\ upload.kind \in {"word1", "word2"}
  /\ upload.how = "dataurl"
  /\ \E r \in 1..upload.rows :
       \E c \in 1..RowWidth(upload.kind, upload.width, r) : IsWordCell(upload.kind, r, c)

\* the payload is malformed in its transport: no comma, a part after the comma
\* that is no valid base64, or bytes that are no UTF-8 text
MalformedTransport ==
  \/ contents = content3
  \/ upload.kind \in Kinds /\ upload.how = "nocomma"
  \/ upload.kind \in Kinds /\ upload.how = "stray"
  \/ upload.kind \in Kinds /\ upload.how = "cut" /\ upload.rows >= 1
  \/ upload.kind = "latin1" /\ upload.how = "dataurl" /\ upload.rows >= 1

\* C1: a file whose rows hold k # 4 numeric tokens makes parse_contents raise
\* ValueError with a message naming the expected count 4 and the actual k.
C1_WrongWidthRaises ==
  (Parsed /\ \E k \in Widths \ {ExpectedPos} : NumericUpload(k))
    => /\ ~df.ok
       /\ df.exc = "ValueError"
       /\ df.msg.args = << ExpectedPos, upload.width >>

\* C2: for a file of rows of exactly 4 numeric tokens, the returned table has
\* exactly the columns Time, Shk1 pos..Shk4 pos, Shk1 vel..Shk4 vel, in order.
C2_NineColumns ==
  (Parsed /\ NumericUpload(ExpectedPos)) => (df.ok /\ df.val.columns = expected_cols)

C2_Witness ==
  Parsed /\ NumericUpload(ExpectedPos) /\ upload.rows >= 2 /\ df.ok

\* C3: for the payload of the first self-test (rows of five numeric tokens),
\* the returned table's columns are exactly expected_cols.
C3_SelfTestColumns ==
  (Parsed /\ contents = content) => (df.ok /\ df.val.columns = expected_cols)

\* C4: for the payload of the second self-test, the channel-1 velocity at
\* row 1 is 1000.0.
C4_SelfTestVelocity ==
  (Parsed /\ contents = content2)
    => /\ df.ok
       /\ expected_cols[ExpectedPos + 2] \in {df.val.columns[c] : c \in 1..Len(df.val.columns)}
       /\ GetCol(df.val, expected_cols[ExpectedPos + 2])[2] = Num(1000 * dtDen)

\* C5: for a file of N rows of 4 numeric tokens, every channel i and every
\* row n >= 1 (counted from 0) has Vel_i[n] = (Pos_i[n] - Pos_i[n-1]) / dt,
\* Pos_i being the i-th token of the row, and Vel_i[0] is the missing value.
C5_Velocity ==
  (Parsed /\ NumericUpload(ExpectedPos))
    => /\ df.ok
       /\ Len(df.val.data) = 2 * ExpectedPos + 1
       /\ \A i \in 1..ExpectedPos :
            LET vel == df.val.data[1 + ExpectedPos + i] IN
            /\ Len(vel) = upload.rows
            /\ vel[1] = NaN
            /\ \A n \in 2..upload.rows :
                 vel[n] = Num(((CellValue(upload.kind, n, i)
                                - CellValue(upload.kind, n - 1, i)) * dtDen) \div dtNum)

C5_Witness ==
  /\ Parsed /\ NumericUpload(ExpectedPos) /\ upload.rows >= 2 /\ df.ok
  /\ df.val.data[2 + ExpectedPos][2].t = "num"
  /\ df.val.data[2 + ExpectedPos][2].v # 0

\* C6: a payload malformed in its transport makes parse_contents raise
\* ValueError (and nothing else): it returns no table.
C6_MalformedRaises ==
  (Parsed /\ MalformedTransport) => (~df.ok /\ df.exc = "ValueError")

\* C7: a well-framed payload whose text holds a non-numeric token makes
\* parse_contents raise ValueError: no table, no other exception type.
C7_WordRaises ==
  (Parsed /\ WordUpload) => (~df.ok /\ df.exc = "ValueError")

\* C8: when parsing the uploaded payload fails, update_graph returns the pair
\* of empty figures and no exception leaves the callback.
C8_FailureRecovered ==
  (Parsed /\ ~df.ok) => ret.kind = "empty"

\* C9: a table parse_contents returns for a payload of N rows has N entries
\* in Time and in every other column, and Time[n] = n * dt for n in [0, N),
\* strictly increasing, whatever the tokens of the file are.
C9_TimeAxis ==
  (Parsed /\ df.ok)
    => /\ upload.kind \in Kinds
       /\ shape0(df.val) = upload.rows
       /\ Len(df.val.columns) = Len(df.val.data)
       /\ \A c \in 1..Len(df.val.data) : Len(df.val.data[c]) = upload.rows
       /\ df.val.columns[1] = expected_cols[1]
       /\ \A n \in 1..upload.rows : df.val.data[1][n] = Num((n - 1) * dtNum)
       /\ \A n \in 2..upload.rows : df.val.data[1][n].v > df.val.data[1][n - 1].v

C9_Witness ==
  /\ Parsed /\ df.ok /\ upload.rows >= 2
  /\ upload.kind = "bounce"
  /\ df.val.data[2][2] # df.val.data[1][2]

\* C10: the window filter keeps exactly the rows with start <= Time <= end, in
\* their order and contiguous; with start > end, or no Time within the bounds,
\* it yields a table of zero rows, and it raises nothing.
C10_Window ==
  (Parsed /\ df.ok)
    => LET time == df.val.data[1]
           sel == {n \in 1..shape0(df.val) :
                     time[n].v >= start_time /\ time[n].v <= end_time}
           kept == df_filtered.index
       IN  /\ ret.kind = "figures"
           /\ df_filtered.columns = df.val.columns
           /\ Len(kept) = Cardinality(sel)
           /\ \A k \in 1..Len(kept) : kept[k] + 1 \in sel
           /\ \A k \in 1..(Len(kept) - 1) : kept[k + 1] = kept[k] + 1
           /\ \A c \in 1..Len(df.val.data) :
                /\ Len(df_filtered.data[c]) = Len(kept)
                /\ \A k \in 1..Len(kept) : df_filtered.data[c][k] = df.val.data[c][kept[k] + 1]
           /\ (start_time > end_time => Len(kept) = 0)
           /\ (sel = {} => Len(kept) = 0)

C10_Witness ==
  /\ Parsed /\ df.ok
  /\ Len(df_filtered.index) >= 1
  /\ Len(df_filtered.index) < shape0(df.val)
  /\ df_filtered.index[1] > 0

========================================================================
